---- MODULE Spec2Model ----
(***************************************************************************)
(* Model of backend/app.py: the SAM segmentation service.                  *)
(*                                                                         *)
(* State: the rotating password pointer (current_index), the session       *)
(* cache (_sessions), the upload directory and the uuid4 values drawn so   *)
(* far (issued).  Observations: the last HTTP response (resp), the         *)
(* arguments of the SamPredictor.predict call the last handler made        *)
(* (predict_call), the password /auth took last (last_accepted) and the    *)
(* session ids ended so far (ended).  Under Spec requests are served one   *)
(* at a time and every handler is one action.  Under ConcSpec requests     *)
(* overlap: reading counts the session/start calls suspended at `await     *)
(* file.read()`, the only await in the file, at the very start of          *)
(* start_session and before any shared state is read or written;           *)
(* predicting holds the segment calls inside predictor.predict.            *)
(*                                                                         *)
(* Conventions.                                                            *)
(*  - Optional[T] is a tuple: None == <<>>, a present value v is <<v>>.    *)
(*  - Pixel coordinates are integers; a point is <<x, y>>.                 *)
(*  - Areas are carried doubled (shoelace sum without the * 0.5) and the   *)
(*    simplification tolerance is carried doubled (1.5 px is 3), so that   *)
(*    every comparison the code makes on floats is made here on integers.  *)
(*  - A boolean pixel mask is represented by the list of contours that     *)
(*    cv2.morphologyEx + cv2.findContours extract from it.                 *)
(***************************************************************************)
EXTENDS Integers, Sequences, FiniteSets, TLC

VARIABLES current_index, _sessions, uploads, issued, resp, predict_call,
          last_accepted, ended, vec, reading, predicting

vars == <<current_index, _sessions, uploads, issued, resp, predict_call,
          last_accepted, ended, vec, reading, predicting>>

None == <<>>
Some(v) == <<v>>

\* Python truthiness of an Optional[List]: present and non-empty.
Truthy(o) == o # None /\ Len(o[1]) > 0

Abs(n) == IF n < 0 THEN -n ELSE n

-----------------------------------------------------------------------------
(* Mask Vectorizer: _mask_to_polygons and the cv2 calls it makes.          *)

\* Defaults of _mask_to_polygons: simplify_eps = 1.5 (doubled), min_area_px.
SIMPLIFY_EPS_X2 == 3
MIN_AREA_PX == 150

\* cv2.contourArea(cnt), doubled: |sum of x_prev*y_i - x_i*y_prev|, the
\* previous point of the first one being the last one.
RECURSIVE ShoelaceSum(_, _)
ShoelaceSum(cnt, i) ==
    IF i > Len(cnt) THEN 0
    ELSE LET prev == IF i = 1 THEN cnt[Len(cnt)] ELSE cnt[i - 1]
         IN  prev[1] * cnt[i][2] - cnt[i][1] * prev[2] + ShoelaceSum(cnt, i + 1)

contourArea_x2(cnt) == IF Len(cnt) = 0 THEN 0 ELSE Abs(ShoelaceSum(cnt, 1))

\* --- cv2.approxPolyDP(cnt, epsilon, closed=True) (Douglas-Peucker) ---
\* Positions are 0-based as in the library: At(src, p) is src_contour[p].
At(src, p) == src[p + 1]

SqDist(a, b) == (a[1] - b[1]) * (a[1] - b[1]) + (a[2] - b[2]) * (a[2] - b[2])

\* Stage 1, inner loop: offset j (1..count-1) of the first point farthest
\* from src[start]; <<max_dist, offset>>, the offset staying rs0 if no point
\* is farther than 0.
RECURSIVE FarthestFrom(_, _, _, _, _)
FarthestFrom(src, start, j, best, rs0) ==
    IF j >= Len(src) THEN <<best, rs0>>
    ELSE LET d == SqDist(At(src, (start + j) % Len(src)), At(src, start))
         IN  IF d > best THEN FarthestFrom(src, start, j + 1, d, j)
             ELSE FarthestFrom(src, start, j + 1, best, rs0)

\* Stage 1: init_iters = 3 rounds of "jump to the farthest point";
\* [start, far_off, max_dist] after the last round.
RECURSIVE InitIters(_, _, _, _)
InitIters(src, pos, rs, iters) ==
    LET start == (pos + rs) % Len(src)
        f == FarthestFrom(src, start, 1, 0, rs)
    IN  IF iters = 1 THEN [start |-> start, far_off |-> f[2], max_dist |-> f[1]]
        ELSE InitIters(src, start, f[2], iters - 1)

\* Stage 3, inner loop over the positions strictly between slice.start and
\* slice.end: <<max_dist, position>> of the first point farthest from the
\* chord; the distance is the cross product, not yet divided by the chord.
RECURSIVE FarthestFromChord(_, _, _, _, _, _)
FarthestFromChord(src, s, e, pos, best, bestPos) ==
    IF pos = e THEN <<best, bestPos>>
    ELSE LET sp == At(src, s)
             ep == At(src, e)
             pt == At(src, pos)
             d  == Abs((pt[2] - sp[2]) * (ep[1] - sp[1]) - (pt[1] - sp[1]) * (ep[2] - sp[2]))
             nx == (pos + 1) % Len(src)
         IN  IF d > best THEN FarthestFromChord(src, s, e, nx, d, pos)
             ELSE FarthestFromChord(src, s, e, nx, best, bestPos)

\* Stage 3: the slice stack, as recursion: a slice within tolerance writes
\* its start point, any other is split at its farthest point.
RECURSIVE Slice(_, _, _, _)
Slice(src, s, e, eps_x2) ==
    LET first == (s + 1) % Len(src)
    IN  IF first = e THEN <<At(src, s)>>
        ELSE LET f == FarthestFromChord(src, s, e, first, 0, s)
                 chord == SqDist(At(src, s), At(src, e))
             IN  IF 4 * f[1] * f[1] <= eps_x2 * eps_x2 * chord
                 THEN <<At(src, s)>>
                 ELSE Slice(src, s, f[2], eps_x2) \o Slice(src, f[2], e, eps_x2)

\* Last stage: drop a point lying (almost) on the straight line through its
\* neighbours.  dst is rewritten in place while it is read, as in the library.
RECURSIVE CleanUp(_, _, _, _, _, _, _, _)
CleanUp(dst, start_pt, pt, pos, wpos, i, new_count, eps_x2) ==
    LET count == Len(dst)
    IN  IF ~(i < count /\ new_count > 2) THEN SubSeq(dst, 1, new_count)
        ELSE LET end_pt == At(dst, pos)
                 pos1 == (pos + 1) % count
                 dx == end_pt[1] - start_pt[1]
                 dy == end_pt[2] - start_pt[2]
                 dist == Abs((pt[1] - start_pt[1]) * dy - (pt[2] - start_pt[2]) * dx)
                 inner == (pt[1] - start_pt[1]) * (end_pt[1] - pt[1])
                          + (pt[2] - start_pt[2]) * (end_pt[2] - pt[2])
                 wpos1 == (wpos + 1) % count
             IN  IF /\ 8 * dist * dist <= eps_x2 * eps_x2 * (dx * dx + dy * dy)
                    /\ dx # 0
                    /\ dy # 0
                    /\ inner >= 0
                 THEN LET dstW == [dst EXCEPT ![wpos + 1] = end_pt]
                      IN  CleanUp(dstW, end_pt, At(dstW, pos1),
                                  (pos1 + 1) % count, wpos1, i + 2, new_count - 1, eps_x2)
                 ELSE CleanUp([dst EXCEPT ![wpos + 1] = pt], pt, end_pt,
                              pos1, wpos1, i + 1, new_count, eps_x2)

approxPolyDP(cnt, eps_x2) ==
    IF Len(cnt) = 0 THEN <<>>
    ELSE LET it == InitIters(cnt, 0, 0, 3)
             far == (it.far_off + it.start) % Len(cnt)
             dst == IF 4 * it.max_dist <= eps_x2 * eps_x2
                    THEN <<At(cnt, it.start)>>
                    ELSE Slice(cnt, it.start, far, eps_x2) \o Slice(cnt, far, it.start, eps_x2)
             n == Len(dst)
         IN  CleanUp(dst, At(dst, n - 1), At(dst, 0), 1 % n, 0, 0, n, eps_x2)

\* polys.sort(key=area, reverse=True): stable, largest area first.
RECURSIVE InsertByArea(_, _)
InsertByArea(sorted, poly) ==
    IF sorted = <<>> THEN <<poly>>
    ELSE IF contourArea_x2(Head(sorted)) >= contourArea_x2(poly)
         THEN <<Head(sorted)>> \o InsertByArea(Tail(sorted), poly)
         ELSE <<poly>> \o sorted

\* Mutant of SortByAreaDesc: the polygons are left in contour order.
SortByAreaDesc_unsorted(polys) == polys

RECURSIVE SortByAreaDesc(_)
SortByAreaDesc(polys) ==
    IF polys = <<>> THEN <<>>
    ELSE InsertByArea(SortByAreaDesc(SubSeq(polys, 1, Len(polys) - 1)), polys[Len(polys)])

\* Mutant of BelowMinArea: no contour is filtered out.
BelowMinArea_never(cnt, min_area_px) == FALSE

\* Lines 84-86: the area filter, on the contour as extracted.
BelowMinArea(cnt, min_area_px) == contourArea_x2(cnt) < 2 * min_area_px

\* Lines 87-88: simplification, only for a positive tolerance.
Simplify(cnt, simplify_eps_x2) ==
    IF simplify_eps_x2 > 0 THEN approxPolyDP(cnt, simplify_eps_x2) ELSE cnt

\* Lines 84-91: the loop over the contours.
RECURSIVE CollectPolys(_, _, _)
CollectPolys(contours, simplify_eps_x2, min_area_px) ==
    IF contours = <<>> THEN <<>>
    ELSE LET cnt == Head(contours)
             rest == CollectPolys(Tail(contours), simplify_eps_x2, min_area_px)
             pts == Simplify(cnt, simplify_eps_x2)
         IN  IF BelowMinArea(cnt, min_area_px) THEN rest
             ELSE IF Len(pts) >= 3 THEN <<pts>> \o rest
             ELSE rest

_mask_to_polygons(mask, simplify_eps_x2, min_area_px) ==
    SortByAreaDesc(CollectPolys(mask, simplify_eps_x2, min_area_px))

-----------------------------------------------------------------------------
(* Inputs of the model: uploads, prompts, and the external SAM model.      *)

\* Number of uuid.uuid4() values the model draws.
MaxUuid == 4
\* Longest contour list of a mask handed to the vectorizer on its own.
MaxContours == 2

\* Number of session/start calls that may await their upload at once.
MaxReading == 2

UUIDs == 1 .. MaxUuid

\* Uploaded files: name (stem, extension) and what PIL makes of the bytes.
Uploads ==
    { [stem |-> "a", ext |-> ".png", decodes |-> TRUE, mode |-> "RGBA",
       width |-> 4, height |-> 3, pixels |-> 1],
      [stem |-> "b", ext |-> "", decodes |-> TRUE, mode |-> "L",
       width |-> 2, height |-> 5, pixels |-> 2],
      [stem |-> "c", ext |-> ".jpg", decodes |-> FALSE, mode |-> "",
       width |-> 0, height |-> 0, pixels |-> 0] }

\* Contours as cv2.findContours reports them (CHAIN_APPROX_SIMPLE), with
\* their enclosed areas: 266, 81, 150, 154 (144 once simplified), 224.
RectBig == << <<0, 0>>, <<0, 14>>, <<19, 14>>, <<19, 0>> >>
RectSmall == << <<30, 0>>, <<30, 9>>, <<39, 9>>, <<39, 0>> >>
RectMin == << <<0, 20>>, <<0, 30>>, <<15, 30>>, <<15, 20>> >>
Bumpy == << <<3, 0>>, <<2, 1>>, <<0, 1>>, <<0, 10>>, <<16, 10>>, <<16, 1>>, <<13, 1>>, <<12, 0>> >>
Octagon == << <<44, 0>>, <<40, 4>>, <<40, 12>>, <<44, 16>>, <<52, 16>>, <<56, 12>>, <<56, 4>>, <<52, 0>> >>

Contours == {RectBig, RectSmall, RectMin, Bumpy, Octagon}

\* Masks the stub model can produce: two regions and a speck; nothing at
\* all; a region whose outline shrinks under simplification and a larger one.
MaskCatalog == << <<RectSmall, RectMin, RectBig>>, <<>>, <<Bumpy, RectBig>> >>
ScoreCatalog == <<90, 75, 50>>

P1 == <<5, 5>>
P2 == <<12, 7>>

Prompt(points, point_labels, box, multimask) ==
    [points |-> points, point_labels |-> point_labels, box |-> box,
     multimask |-> multimask]

\* Bodies of /segment requests, session_id apart.
Prompts ==
    { Prompt(None, None, None, TRUE),
      Prompt(Some(<<P1>>), None, None, FALSE),
      Prompt(Some(<<P1>>), Some(<<1>>), None, FALSE),
      Prompt(Some(<<P1>>), Some(<<0>>), None, FALSE),
      Prompt(Some(<<P1, P2>>), Some(<<>>), None, FALSE),
      Prompt(Some(<<P1, P2>>), Some(<<0>>), None, FALSE),
      Prompt(None, None, Some(<<>>), FALSE),
      Prompt(None, None, Some(<<1, 1, 9>>), TRUE),
      Prompt(None, None, Some(<<1, 1, 9, 9>>), FALSE),
      Prompt(None, None, Some(<<1, 1, 9, 9, 2>>), FALSE) }

\* SegmentRequest: session_id, points, point_labels, box, multimask.
Request(session_id, p) ==
    [session_id |-> session_id, points |-> p.points, point_labels |-> p.point_labels,
     box |-> p.box, multimask |-> p.multimask]

SegmentRequests == { Request(sid, p) : sid \in UUIDs, p \in Prompts }

\* Passwords /auth may be sent: the listed ones, a wrong one, none at all.
PASSWORDS == <<"pass1", "pass2", "pass3", "pass4">>
PasswordInputs == {Some(PASSWORDS[i]) : i \in 1 .. Len(PASSWORDS)} \cup {Some("guess"), None}

\* --- segment_anything.SamPredictor, as far as app.py relies on it ---
\* SamPredictor(sam): no image set yet.
SamPredictor == [features |-> None, original_size |-> <<>>, set_image_calls |-> 0]

\* predictor.set_image(img_np): the embedding is a function of the raster.
set_image(predictor, img_np) ==
    [features |-> Some(img_np.data), original_size |-> <<img_np.shape[1], img_np.shape[2]>>,
     set_image_calls |-> predictor.set_image_calls + 1]

\* Mutant of AfterPredict: the embedding is computed again on every predict.
AfterPredict_recomputes(predictor) ==
    [predictor EXCEPT !.set_image_calls = @ + 1]

\* Mutant of AfterPredict: predict writes into the embedding it works on.
AfterPredict_drifts(predictor) ==
    [predictor EXCEPT !.features = Some(@[1] + 1)]

\* Mutant of AfterPredict: the predictor's image is reset after a predict.
AfterPredict_resets(predictor) == SamPredictor

\* predictor.predict leaves the predictor as it found it.
AfterPredict(predictor) == predictor

RECURSIVE CountPositive(_)
CountPositive(labels) ==
    IF labels = <<>> THEN 0
    ELSE (IF Head(labels) = 1 THEN 1 ELSE 0) + CountPositive(Tail(labels))

\* predictor.predict(...): a deterministic function of the embedding and the
\* prompt; three candidate masks with multimask_output, else one.
predict(predictor, point_coords, point_labels, box, multimask_output) ==
    LET n == Len(MaskCatalog)
        k == ( predictor.features[1]
               + (IF point_coords = None THEN 0 ELSE Len(point_coords[1]))
               + (IF point_labels = None THEN 0 ELSE CountPositive(point_labels[1]))
               + (IF box = None THEN 0 ELSE 1) ) % n
        picks == IF multimask_output THEN <<k, (k + 1) % n, (k + 2) % n>> ELSE <<k>>
    IN  [masks |-> [i \in 1 .. Len(picks) |-> MaskCatalog[picks[i] + 1]],
         scores |-> [i \in 1 .. Len(picks) |-> ScoreCatalog[i]]]

\* Line 63: _sessions = {}.
EmptyStore == [s \in {} |-> None]

-----------------------------------------------------------------------------
(* HTTP responses, as observed by the caller.                              *)

\* op and target name the request answered (target: the session id it
\* named, if any); the other fields are the status and body of the answer.
Response(op, target, status, detail) ==
    [op |-> op, target |-> target, status |-> status, detail |-> detail,
     session_id |-> None, image_size |-> <<>>, image_url |-> <<>>,
     num_masks |-> 0, masks |-> <<>>]

NoResponse == Response("none", None, 0, "")

\* An exception no handler catches: the framework answers 500.
Unhandled(op) == Response(op, None, 500, "Internal Server Error")

-----------------------------------------------------------------------------
(* POST /auth                                                              *)

\* Mutant of PasswordMatches: any password of the list is taken.
PasswordMatches_any(password, index) ==
    \E i \in 1 .. Len(PASSWORDS) : password = Some(PASSWORDS[i])

\* Line 128: password == PASSWORDS[current_index] (0-based index).
PasswordMatches(password, index) == password = Some(PASSWORDS[index + 1])

\* Mutant of NextIndex: the pointer is advanced without wrapping.
NextIndex_unwrapped(index) == index + 1

\* Line 130: (current_index + 1) % len(PASSWORDS).
NextIndex(index) == (index + 1) % Len(PASSWORDS)

auth(password) ==
    LET ok == PasswordMatches(password, current_index)
    IN  /\ current_index' = IF ok THEN NextIndex(current_index) ELSE current_index
        /\ last_accepted' = IF ok THEN password ELSE last_accepted
        /\ resp' = IF ok THEN Response("auth", None, 200, "")
                   ELSE Response("auth", None, 401, "Invalid password")
        /\ predict_call' = None
        /\ UNCHANGED <<_sessions, uploads, issued, ended, vec>>

-----------------------------------------------------------------------------
(* POST /session/start                                                     *)

\* Image.open(...).convert("RGB") as an array: shape (height, width, 3).
_to_np_image(file) ==
    [shape |-> <<file.height, file.width, 3>>, data |-> file.pixels]

\* Line 145: os.path.splitext(file.filename)[1] or ".jpg".
Extension(file) == IF file.ext = "" THEN ".jpg" ELSE file.ext

\* Mutant of ImageSize: the axes in array order, (height, width).
ImageSize_swapped(img_np) == <<img_np.shape[1], img_np.shape[2]>>

\* Line 158: [int(img_np.shape[1]), int(img_np.shape[0])] (0-based axes).
ImageSize(img_np) == <<img_np.shape[2], img_np.shape[1]>>

\* Lines 156-160: the entry stored under the new session id.
NewSession(img_np, img_filename) ==
    [predictor |-> set_image(SamPredictor, img_np),
     image_size |-> ImageSize(img_np),
     image_url |-> <<"/uploads/", img_filename>>]

\* Mutant of StartResponse: the id answered is the one drawn for the file
\* name (line 146), not the one the entry is stored under (line 155).
StartResponse_file_id(session_id, sess) ==
    [Response("session/start", None, 200, "") EXCEPT
        !.session_id = Some(sess.image_url[2][1]),
        !.image_size = sess.image_size,
        !.image_url = sess.image_url]

\* Lines 162-166: the answer is read back from the stored entry.
StartResponse(session_id, sess) ==
    [Response("session/start", None, 200, "") EXCEPT
        !.session_id = Some(session_id),
        !.image_size = sess.image_size,
        !.image_url = sess.image_url]

\* uuid.uuid4(): a value never drawn before.  The values are opaque (the code
\* only tests them for equality), so they are numbered in the order drawn.
uuid4(drawn) == CHOOSE u \in UUIDs \ drawn : \A v \in UUIDs \ drawn : u <= v

\* Mutant of Put: a cache of one entry, the newcomer evicting the rest.
Put_evicts(store, session_id, sess) == [s \in {session_id} |-> sess]

\* Line 156: _sessions[session_id] = {...}.
Put(store, session_id, sess) ==
    [s \in DOMAIN store \cup {session_id} |-> IF s = session_id THEN sess ELSE store[s]]

\* set_image_raises: whether predictor.set_image throws (it is not reached,
\* and so does not, when the upload does not decode).
start_session(file, set_image_raises) ==
    /\ predict_call' = None
    /\ UNCHANGED <<current_index, last_accepted, ended, vec>>
    /\ IF ~file.decodes
       THEN /\ ~set_image_raises
            /\ resp' = Response("session/start", None, 400, "Invalid image")
            /\ UNCHANGED <<_sessions, uploads, issued>>
       ELSE LET img_np == _to_np_image(file)
                file_uuid == uuid4(issued)
                session_uuid == uuid4(issued \cup {file_uuid})
                img_filename == <<file_uuid, Extension(file)>>
            IN  /\ UUIDs \ issued # {}
                /\ uploads' = uploads \cup {img_filename}
                /\ IF set_image_raises
                   THEN /\ issued' = issued \cup {file_uuid}
                        /\ resp' = Unhandled("session/start")
                        /\ UNCHANGED _sessions
                   ELSE /\ UUIDs \ (issued \cup {file_uuid}) # {}
                        /\ issued' = issued \cup {file_uuid, session_uuid}
                        /\ _sessions' = Put(_sessions, session_uuid,
                                            NewSession(img_np, img_filename))
                        /\ resp' = StartResponse(session_uuid, _sessions'[session_uuid])

-----------------------------------------------------------------------------
(* POST /segment                                                           *)

\* Lines 180-181: point_coords.
PointCoords(req) == IF Truthy(req.points) THEN Some(req.points[1]) ELSE None

\* Mutant of PointLabels: supplied labels are used whatever their number.
PointLabels_unchecked(req) ==
    IF Truthy(req.points)
    THEN IF Truthy(req.point_labels)
         THEN Some(req.point_labels[1])
         ELSE Some([i \in 1 .. Len(req.points[1]) |-> 1])
    ELSE None

\* Lines 180-185: point_labels, all ones unless the lengths match.
PointLabels(req) ==
    IF Truthy(req.points)
    THEN IF Truthy(req.point_labels) /\ Len(req.point_labels[1]) = Len(req.points[1])
         THEN Some(req.point_labels[1])
         ELSE Some([i \in 1 .. Len(req.points[1]) |-> 1])
    ELSE None

\* Lines 188-190: the box check.
BoxRejected(req) == Truthy(req.box) /\ Len(req.box[1]) # 4

\* Lines 187-191: box_np, the box as a 1 x 4 array.
BoxNp(req) == IF Truthy(req.box) THEN Some(<<req.box[1]>>) ELSE None

\* Mutant of SegmentOut: a mask without polygons is skipped.
RECURSIVE SegmentOut_dropsEmpty(_, _)
SegmentOut_dropsEmpty(masks, scores) ==
    IF masks = <<>> \/ scores = <<>> THEN <<>>
    ELSE LET polys == _mask_to_polygons(Head(masks), SIMPLIFY_EPS_X2, MIN_AREA_PX)
         IN  (IF polys = <<>> THEN <<>>
              ELSE <<[score |-> Head(scores), polygons |-> polys]>>)
             \o SegmentOut_dropsEmpty(Tail(masks), Tail(scores))

\* Lines 203-209: one entry per (mask, score) pair of zip(masks, scores).
RECURSIVE SegmentOut(_, _)
SegmentOut(masks, scores) ==
    IF masks = <<>> \/ scores = <<>> THEN <<>>
    ELSE <<[score |-> Head(scores),
            polygons |-> _mask_to_polygons(Head(masks), SIMPLIFY_EPS_X2, MIN_AREA_PX)]>>
         \o SegmentOut(Tail(masks), Tail(scores))

\* Mutant of SegmentResult: a failing model call answers 500 together with
\* the entries built so far.
SegmentResult_partial(req, sess, predicted, predict_raises) ==
    LET out == SegmentOut(predicted.masks, predicted.scores)
    IN  IF predict_raises
        THEN [Response("segment", Some(req.session_id), 500, "SAM prediction failed")
                 EXCEPT !.masks = SubSeq(out, 1, 1)]
        ELSE [Response("segment", Some(req.session_id), 200, "") EXCEPT
                 !.image_size = sess.image_size,
                 !.num_masks = Len(out),
                 !.masks = out]

\* Lines 193-215: the answer once the prompt has passed the checks.
SegmentResult(req, sess, predicted, predict_raises) ==
    IF predict_raises
    THEN Response("segment", Some(req.session_id), 500, "SAM prediction failed")
    ELSE LET out == SegmentOut(predicted.masks, predicted.scores)
         IN  [Response("segment", Some(req.session_id), 200, "") EXCEPT
                 !.image_size = sess.image_size,
                 !.num_masks = Len(out),
                 !.masks = out]

\* predict_raises: whether predictor.predict throws (it is not reached, and
\* so does not, when the request is answered 404 or 400).
segment(req, predict_raises) ==
    /\ UNCHANGED <<current_index, uploads, issued, last_accepted, ended, vec>>
    /\ IF req.session_id \notin DOMAIN _sessions
       THEN /\ ~predict_raises
            /\ resp' = Response("segment", Some(req.session_id), 404,
                              "Invalid session_id. Please start a session first.")
            /\ predict_call' = None
            /\ UNCHANGED _sessions
       ELSE LET sess == _sessions[req.session_id]
                predictor == sess.predictor
                point_coords == PointCoords(req)
                point_labels == PointLabels(req)
            IN  IF BoxRejected(req)
                THEN /\ ~predict_raises
                     /\ resp' = Response("segment", Some(req.session_id), 400,
                                       "box must be [x1,y1,x2,y2]")
                     /\ predict_call' = None
                     /\ UNCHANGED _sessions
                ELSE LET box_np == BoxNp(req)
                     IN  /\ predict_call' = Some([point_coords |-> point_coords,
                                                   point_labels |-> point_labels,
                                                   box |-> box_np,
                                                   multimask_output |-> req.multimask])
                         /\ _sessions' = [_sessions EXCEPT
                                ![req.session_id].predictor = AfterPredict(predictor)]
                         /\ resp' = SegmentResult(req, sess,
                                        predict(predictor, point_coords, point_labels,
                                                box_np, req.multimask),
                                        predict_raises)

-----------------------------------------------------------------------------
(* POST /session/end                                                       *)

\* Mutant of Delete: the whole cache is cleared.
Delete_all(store, session_id) == EmptyStore

\* Mutant of Delete: the entry is left in the cache.
Delete_keeps(store, session_id) == store

\* Line 221: del _sessions[session_id].
Delete(store, session_id) ==
    [s \in DOMAIN store \ {session_id} |-> store[s]]

end_session(session_id) ==
    /\ predict_call' = None
    /\ UNCHANGED <<current_index, uploads, issued, last_accepted, vec>>
    /\ IF session_id \in DOMAIN _sessions
       THEN /\ _sessions' = Delete(_sessions, session_id)
            /\ ended' = ended \cup {session_id}
            /\ resp' = Response("session/end", Some(session_id), 200, "ended")
       ELSE /\ resp' = Response("session/end", Some(session_id), 404, "Invalid session_id")
            /\ UNCHANGED <<_sessions, ended>>

-----------------------------------------------------------------------------
(* The service.                                                            *)

\* No session/start call is awaiting its upload.
NoReads == [f \in Uploads |-> 0]

\* The vectorizer's own record, unused by the service.
VecIdle ==
    [mask |-> <<>>, simplify_eps_x2 |-> SIMPLIFY_EPS_X2, min_area_px |-> MIN_AREA_PX,
     done |-> FALSE, polys |-> <<>>]

Init ==
    /\ current_index = 0
    /\ _sessions = EmptyStore
    /\ uploads = {}
    /\ issued = {}
    /\ resp = NoResponse
    /\ predict_call = None
    /\ last_accepted = None
    /\ ended = {}
    /\ vec = VecIdle
    /\ reading = NoReads
    /\ predicting = {}

\* One request at a time: each handler runs from its first line to its
\* answer before the next request is taken.
Next ==
    \/ \E password \in PasswordInputs : auth(password) /\ UNCHANGED <<reading, predicting>>
    \/ \E file \in Uploads, raises \in BOOLEAN :
          start_session(file, raises) /\ UNCHANGED <<reading, predicting>>
    \/ \E req \in SegmentRequests, raises \in BOOLEAN :
          segment(req, raises) /\ UNCHANGED <<reading, predicting>>
    \/ \E session_id \in UUIDs : end_session(session_id) /\ UNCHANGED <<reading, predicting>>

Spec == Init /\ [][Next]_vars

-----------------------------------------------------------------------------
(* Concurrent requests.  The handlers are coroutines of one event loop: a  *)
(* handler that has started runs until it awaits or answers, and only then *)
(* does another handler run.  The one await of the session handlers is     *)
(* `await file.read()` in start_session (line 139); segment and            *)
(* end_session have none.  A segment call is shown in two steps, entering  *)
(* and leaving predictor.predict, so that a call inside the model is a     *)
(* state of its own.                                                       *)

ConcPrompts ==
    { Prompt(Some(<<P1>>), None, None, FALSE),
      Prompt(Some(<<P1, P2>>), Some(<<0>>), None, FALSE),
      Prompt(None, None, Some(<<1, 1, 9>>), TRUE) }

ConcRequests == { Request(sid, p) : sid \in UUIDs, p \in ConcPrompts }

RECURSIVE SumOver(_, _)
SumOver(f, S) ==
    IF S = {} THEN 0
    ELSE LET x == CHOOSE y \in S : TRUE IN f[x] + SumOver(f, S \ {x})

\* Mutant of LoopFree: handlers run on a pool of threads, as plain `def`
\* handlers would.
LoopFree_threads == TRUE

\* Line 170, `async def`: the event loop is free for another handler when
\* no handler is in the middle of a synchronous call.
LoopFree == predicting = {}

\* Lines 136-139: a session/start call begins and awaits the upload.
start_read(file) ==
    /\ LoopFree
    /\ SumOver(reading, Uploads) < MaxReading
    /\ reading' = [reading EXCEPT ![file] = @ + 1]
    /\ UNCHANGED <<current_index, _sessions, uploads, issued, resp, predict_call,
                   last_accepted, ended, vec, predicting>>

\* Lines 140-166: the upload has been read; the rest of the handler.
start_resume(file, set_image_raises) ==
    /\ LoopFree
    /\ reading[file] > 0
    /\ reading' = [reading EXCEPT ![file] = @ - 1]
    /\ start_session(file, set_image_raises)
    /\ UNCHANGED predicting

\* Lines 170-192: the checks of a segment call; a call that passes them
\* enters predictor.predict holding the entry it looked up (line 172).
segment_enter(req) ==
    /\ LoopFree
    /\ UNCHANGED reading
    /\ IF req.session_id \notin DOMAIN _sessions \/ BoxRejected(req)
       THEN /\ segment(req, FALSE)
            /\ UNCHANGED predicting
       ELSE /\ predicting' = predicting \cup {[req |-> req, sess |-> _sessions[req.session_id]]}
            /\ UNCHANGED <<current_index, _sessions, uploads, issued, resp,
                           predict_call, last_accepted, ended, vec>>

\* Lines 193-215: predictor.predict returns or throws, and the call answers.
segment_return(call, predict_raises) ==
    /\ call \in predicting
    /\ LET req == call.req
           predictor == call.sess.predictor
           point_coords == PointCoords(req)
           point_labels == PointLabels(req)
           box_np == BoxNp(req)
       IN
        /\ predicting' = predicting \ {call}
        /\ predict_call' = Some([point_coords |-> point_coords,
                                  point_labels |-> point_labels,
                                  box |-> box_np,
                                  multimask_output |-> req.multimask])
        /\ _sessions' = IF req.session_id \in DOMAIN _sessions
                         THEN [_sessions EXCEPT
                                  ![req.session_id].predictor = AfterPredict(predictor)]
                         ELSE _sessions
        /\ resp' = SegmentResult(req, call.sess,
                                 predict(predictor, point_coords, point_labels,
                                         box_np, req.multimask),
                                 predict_raises)
        /\ UNCHANGED <<current_index, uploads, issued, last_accepted, ended, vec,
                       reading>>

\* Lines 219-223: session/end, once the event loop takes it.
end_session_run(session_id) ==
    /\ LoopFree
    /\ end_session(session_id)
    /\ UNCHANGED <<reading, predicting>>

ConcNext ==
    \/ \E file \in Uploads : start_read(file)
    \/ \E file \in Uploads, raises \in BOOLEAN : start_resume(file, raises)
    \/ \E req \in ConcRequests : segment_enter(req)
    \/ \E call \in predicting, raises \in BOOLEAN : segment_return(call, raises)
    \/ \E session_id \in UUIDs : end_session_run(session_id)

ConcSpec == Init /\ [][ConcNext]_vars

-----------------------------------------------------------------------------
(* The Mask Vectorizer on its own: any contour list, tolerance and minimum *)
(* area, then one application of _mask_to_polygons.                        *)

\* Tolerances (doubled): none, the default 1.5 px, 20 px.
Tolerances == {0, SIMPLIFY_EPS_X2, 40}
MinAreas == {0, MIN_AREA_PX}

RECURSIVE SeqsUpTo(_, _)
SeqsUpTo(S, n) ==
    IF n = 0 THEN {<<>>}
    ELSE LET shorter == SeqsUpTo(S, n - 1)
         IN  shorter \cup {Append(q, x) : q \in shorter, x \in S}

VecInit ==
    /\ current_index = 0
    /\ _sessions = EmptyStore
    /\ uploads = {}
    /\ issued = {}
    /\ resp = NoResponse
    /\ predict_call = None
    /\ last_accepted = None
    /\ ended = {}
    /\ reading = NoReads
    /\ predicting = {}
    /\ \E mask \in SeqsUpTo(Contours, MaxContours), eps \in Tolerances, min_area \in MinAreas :
          vec = [mask |-> mask, simplify_eps_x2 |-> eps, min_area_px |-> min_area,
                 done |-> FALSE, polys |-> <<>>]

vectorize ==
    /\ ~vec.done
    /\ vec' = [vec EXCEPT !.done = TRUE,
                          !.polys = _mask_to_polygons(vec.mask, vec.simplify_eps_x2,
                                                      vec.min_area_px)]
    /\ UNCHANGED <<current_index, _sessions, uploads, issued, resp, predict_call,
                   last_accepted, ended, reading, predicting>>

VecNext == vectorize

VecSpec == VecInit /\ [][VecNext]_vars

-----------------------------------------------------------------------------
(* Properties of the service (Spec).                                       *)

\* C1: once a session/end call on a session id has succeeded, every later
\* segment call with that id answers 404 and every later session/end call on
\* it answers 404, whatever other calls happen in between.
C1_EndedSessionStaysGone ==
    [][\A sid \in ended :
          /\ \A req \in SegmentRequests, raises \in BOOLEAN :
                (req.session_id = sid /\ segment(req, raises)) => resp'.status = 404
          /\ end_session(sid) => resp'.status = 404]_vars

\* C1 happens: a segment call on an ended session id has been answered 404.
C1_Witness ==
    /\ resp.op = "segment"
    /\ resp.status = 404
    /\ resp.target[1] \in ended

\* C2: the embedding of a live session has been computed exactly once, and
\* no call (segment in particular, whatever its outcome) computes it again
\* or changes the predictor holding it.
C2_EmbeddingComputedOnce ==
    [][/\ \A s \in DOMAIN _sessions' : _sessions'[s].predictor.set_image_calls = 1
       /\ \A s \in DOMAIN _sessions \cap DOMAIN _sessions' :
             _sessions'[s].predictor = _sessions[s].predictor]_vars

\* C2 happens: the model has been invoked for a live session, whose
\* embedding is still the one computed at session/start.
C2_Witness ==
    /\ resp.op = "segment"
    /\ resp.status \in {200, 500}
    /\ predict_call # None
    /\ resp.target[1] \in DOMAIN _sessions
    /\ _sessions[resp.target[1]].predictor.set_image_calls = 1

\* C3: a successful session/start answers image_size = (width, height) of
\* the decoded raster and stores it; the stored size never changes; every
\* successful segment call reports the stored size of its session.
C3_ImageSizeRoundTrip ==
    [][/\ \A file \in Uploads, raises \in BOOLEAN :
             (start_session(file, raises) /\ resp'.status = 200)
                => /\ resp'.image_size = <<file.width, file.height>>
                   /\ _sessions'[resp'.session_id[1]].image_size = resp'.image_size
       /\ \A s \in DOMAIN _sessions \cap DOMAIN _sessions' :
             _sessions'[s].image_size = _sessions[s].image_size
       /\ (resp'.op = "segment" /\ resp'.status = 200)
             => /\ resp'.target[1] \in DOMAIN _sessions
                /\ resp'.image_size = _sessions[resp'.target[1]].image_size]_vars

\* C3 happens: a segment call on the session of the 2 x 5 upload, made after
\* another session was ended, reports (2, 5).
C3_Witness ==
    /\ resp.op = "segment"
    /\ resp.status = 200
    /\ resp.image_size = <<2, 5>>
    /\ ended # {}

\* C4: a session leaves the cache only in a session/end call on its own id,
\* and a segment call naming a cached session is never answered 404.
C4_OnlyEndRemoves ==
    [][/\ \A s \in DOMAIN _sessions : s \notin DOMAIN _sessions' => end_session(s)
       /\ (resp'.op = "segment" /\ resp'.target[1] \in DOMAIN _sessions)
             => resp'.status # 404]_vars

\* C4 happens: with one session ended and a later one started, a segment
\* call finds the surviving session.
C4_Witness ==
    /\ resp.op = "segment"
    /\ resp.status = 200
    /\ ended # {}
    /\ \E s \in ended : s < resp.target[1]

\* C7 (as claimed): on a cached session, a supplied box of any length other
\* than 4, the empty list included, is answered 400 without a model call.
C7_AnyOtherLengthRejected ==
    [][\A req \in SegmentRequests, raises \in BOOLEAN :
          (/\ req.session_id \in DOMAIN _sessions
           /\ req.box # None
           /\ Len(req.box[1]) # 4
           /\ segment(req, raises))
             => (resp'.status = 400 /\ predict_call' = None)]_vars

AllPositive(n) == [i \in 1 .. n |-> 1]

\* C8: in a segment call with a non-empty points list that reaches the
\* model, the labels handed to the model are the supplied ones when there is
\* one per point, and otherwise one positive label per point; in the latter
\* case the call has exactly the outcome of the same call with explicit
\* all-positive labels.
C8_DefaultLabels ==
    [][(resp'.op = "segment" /\ predict_call' # None)
          => \A p \in Prompts, raises \in BOOLEAN :
                LET req == Request(resp'.target[1], p)
                    n == Len(req.points[1])
                    matching == req.point_labels # None /\ Len(req.point_labels[1]) = n
                IN  (/\ req.points # None
                     /\ n > 0
                     /\ raises = (resp'.status = 500)
                     /\ segment(req, raises))
                       => /\ predict_call'[1].point_labels
                                = Some(IF matching THEN req.point_labels[1]
                                       ELSE AllPositive(n))
                          /\ ~matching
                                => segment([req EXCEPT !.point_labels = Some(AllPositive(n))],
                                           raises)]_vars

\* C8 happens: the model was called with two points and two positive
\* labels; no request of Prompts supplies two labels that are both positive,
\* so the labels were the default.
C8_Witness ==
    /\ resp.op = "segment"
    /\ resp.status = 200
    /\ predict_call # None
    /\ predict_call[1].point_coords = Some(<<P1, P2>>)
    /\ predict_call[1].point_labels = Some(<<1, 1>>)

IndexOf(password) == CHOOSE i \in 1 .. Len(PASSWORDS) : PASSWORDS[i] = password

\* C9: /auth answers ok exactly for the list entry at the rotation pointer,
\* and then moves the pointer one position on, from the last entry back to
\* the first; any other password is answered 401 and moves nothing.  Each
\* password taken is the first of the list if none was taken before, and
\* else the cyclic successor of the one taken last.
C9_RotatingPassword ==
    [][\A password \in PasswordInputs :
          auth(password)
             => IF password = Some(PASSWORDS[current_index + 1])
                THEN /\ resp'.status = 200
                     /\ current_index' = IF current_index = Len(PASSWORDS) - 1
                                         THEN 0 ELSE current_index + 1
                     /\ password[1] = IF last_accepted = None THEN PASSWORDS[1]
                                      ELSE PASSWORDS[(IndexOf(last_accepted[1]) % Len(PASSWORDS)) + 1]
                     /\ last_accepted' = password
                ELSE /\ resp'.status = 401
                     /\ current_index' = current_index
                     /\ last_accepted' = last_accepted]_vars

\* C9 happens: the last entry of the list has just been taken and the
\* pointer is back on the first.
C9_Witness ==
    /\ resp.op = "auth"
    /\ resp.status = 200
    /\ last_accepted = Some(PASSWORDS[Len(PASSWORDS)])
    /\ current_index = 0

\* C10: a segment answer is all or nothing: with status 200 it carries one
\* entry per mask the model produced for the call, and with any other status
\* (404, 400, or 500 when the model call throws) it carries no mask at all.
C10_NoPartialResults ==
    /\ resp.op = "segment" /\ resp.status = 200
          => /\ predict_call # None
             /\ resp.target[1] \in DOMAIN _sessions
             /\ LET call == predict_call[1]
                    produced == predict(_sessions[resp.target[1]].predictor,
                                        call.point_coords, call.point_labels,
                                        call.box, call.multimask_output)
                IN  /\ Len(resp.masks) = Len(produced.masks)
                    /\ resp.num_masks = Len(produced.masks)
    /\ resp.op = "segment" /\ resp.status # 200
          => /\ resp.status \in {400, 404, 500}
             /\ resp.masks = <<>>
             /\ resp.num_masks = 0
    /\ resp.op = "segment" /\ predict_call # None /\ resp.status # 200
          => resp.status = 500 /\ resp.detail = "SAM prediction failed"

\* C10 happens: the model was called for three masks and threw; the answer
\* is a 500 without masks.
C10_Witness ==
    /\ resp.op = "segment"
    /\ resp.status = 500
    /\ predict_call # None
    /\ predict_call[1].multimask_output
    /\ resp.masks = <<>>

\* The masks and scores the model produced for the call last answered.
Produced ==
    LET call == predict_call[1]
    IN  predict(_sessions[resp.target[1]].predictor, call.point_coords,
                call.point_labels, call.box, call.multimask_output)

\* C11: a successful segment answer has one entry per mask the model
\* produced, in the model's order, entry i carrying score i and the polygons
\* of mask i (none, if the mask vectorizes to none); num_masks is their number.
C11_OneResultPerMask ==
    (resp.op = "segment" /\ resp.status = 200)
       => /\ predict_call # None
          /\ resp.target[1] \in DOMAIN _sessions
          /\ resp.num_masks = Len(Produced.masks)
          /\ Len(resp.masks) = Len(Produced.masks)
          /\ \A i \in 1 .. Len(Produced.masks) :
                /\ resp.masks[i].score = Produced.scores[i]
                /\ resp.masks[i].polygons
                      = _mask_to_polygons(Produced.masks[i], SIMPLIFY_EPS_X2, MIN_AREA_PX)

\* C11 happens: three masks were produced, the first without any polygon,
\* and the answer lists three entries, the first with an empty polygon list.
C11_Witness ==
    /\ resp.op = "segment"
    /\ resp.status = 200
    /\ resp.num_masks = 3
    /\ resp.masks[1].polygons = <<>>
    /\ resp.masks[2].polygons # <<>>

\* C12 (as claimed): every failed session/start is answered by the handler
\* itself, 400 for an upload that does not decode and a 500 with a message of
\* its own when the embedding computation throws; no exception leaves the
\* handler for the framework to answer.
C12_StartFailuresTranslated ==
    (resp.op = "session/start" /\ resp.status # 200)
       => /\ resp.status \in {400, 500}
          /\ resp # Unhandled("session/start")

\* C13: a segment call, whatever its answer (200, 404, 400 or 500), leaves
\* the session cache as it found it: the same session ids, each with the same
\* embedding, image_size and image_url; an entry holds nothing else, so no
\* mask result stays behind, and the upload folder is not touched either.
C13_SegmentReadOnly ==
    [][resp'.op = "segment"
          => /\ resp'.status \in {200, 400, 404, 500}
             /\ DOMAIN _sessions' = DOMAIN _sessions
             /\ \A s \in DOMAIN _sessions :
                   /\ DOMAIN _sessions'[s] = {"predictor", "image_size", "image_url"}
                   /\ _sessions'[s].predictor.features = _sessions[s].predictor.features
                   /\ _sessions'[s].predictor = _sessions[s].predictor
                   /\ _sessions'[s].image_size = _sessions[s].image_size
                   /\ _sessions'[s].image_url = _sessions[s].image_url
             /\ uploads' = uploads]_vars

\* C13 happens: a segment call produced masks for one of two cached
\* sessions, and both are still cached with their embeddings.
C13_Witness ==
    /\ resp.op = "segment"
    /\ resp.status = 200
    /\ resp.masks # <<>>
    /\ Cardinality(DOMAIN _sessions) = 2
    /\ \A s \in DOMAIN _sessions : _sessions[s].predictor.features # None

\* What the model is handed for a prompt (lines 178-198).
ModelInput(p) ==
    [point_coords |-> PointCoords(p), point_labels |-> PointLabels(p),
     box |-> BoxNp(p), multimask_output |-> p.multimask]

\* The answer entries for an upload and a prompt, worked out from the upload
\* alone: a fresh embedding, the model, the vectorizer.
FromScratch(file, p) ==
    LET predicted == predict(set_image(SamPredictor, _to_np_image(file)),
                             PointCoords(p), PointLabels(p), BoxNp(p), p.multimask)
    IN  SegmentOut(predicted.masks, predicted.scores)

\* C16: the scores and polygons of a successful segment answer are those
\* that the session's upload and the prompt give when worked out from
\* scratch; so two calls with the same session and prompt answer alike,
\* whatever calls (other prompts, other sessions, /auth) came before.
C16_ResultFunctionOfSessionAndPrompt ==
    (resp.op = "segment" /\ resp.status = 200)
       => /\ predict_call # None
          /\ resp.target[1] \in DOMAIN _sessions
          /\ \E p \in Prompts : ModelInput(p) = predict_call[1]
          /\ \A file \in Uploads, p \in Prompts :
                (/\ file.decodes
                 /\ ImageSize(_to_np_image(file)) = _sessions[resp.target[1]].image_size
                 /\ ModelInput(p) = predict_call[1])
                   => resp.masks = FromScratch(file, p)

\* C16 happens: a segment call is answered with polygons after a password
\* was taken and another session was ended.
C16_Witness ==
    /\ resp.op = "segment"
    /\ resp.status = 200
    /\ \E i \in 1 .. Len(resp.masks) : resp.masks[i].polygons # <<>>
    /\ last_accepted # None
    /\ ended # {}

\* C17 (as claimed): a segment call has one outcome, decided in this order:
\* an id that is not cached is answered 404, malformed box or not; on a
\* cached session a supplied box of a length other than 4 is answered 400;
\* only a call that passed both checks reaches the model, is answered 200 or
\* 500, and nothing else is answered 500.
C17_ChecksInOrder ==
    [][\A req \in SegmentRequests, raises \in BOOLEAN :
          segment(req, raises)
             => LET known == req.session_id \in DOMAIN _sessions
                    malformed == req.box # None /\ Len(req.box[1]) # 4
                IN  /\ ~known => (resp'.status = 404 /\ predict_call' = None)
                    /\ (known /\ malformed)
                          => (resp'.status = 400 /\ predict_call' = None)
                    /\ (known /\ ~malformed)
                          => (resp'.status \in {200, 500} /\ predict_call' # None)
                    /\ resp'.status = 500 => (known /\ ~malformed /\ raises)]_vars

SessionOps == {"session/start", "segment", "session/end"}

\* C18: the rotation pointer is always an index of the password list and
\* moves only in an /auth call answered ok; a refused /auth call and every
\* session/start, segment and session/end call leave it where it was; an
\* /auth call, ok or not, leaves the session cache and the uploads as they
\* were; and the outcome of a session call is decided by its input and the
\* cache alone, whether or not a password was ever taken.
C18_PointerFrame ==
    [][/\ current_index' \in 0 .. Len(PASSWORDS) - 1
       /\ current_index' # current_index => (resp'.op = "auth" /\ resp'.status = 200)
       /\ (resp'.op = "auth" /\ resp'.status # 200)
             => (resp'.status = 401 /\ current_index' = current_index)
       /\ resp'.op \in SessionOps
             => (current_index' = current_index /\ last_accepted' = last_accepted)
       /\ resp'.op = "auth"
             => (_sessions' = _sessions /\ uploads' = uploads /\ issued' = issued)
       /\ \A file \in Uploads, raises \in BOOLEAN :
             start_session(file, raises)
                => (resp'.status = 200 <=> (file.decodes /\ ~raises))
       /\ resp'.op = "segment"
             => (resp'.status = 404 <=> resp'.target[1] \notin DOMAIN _sessions)
       /\ resp'.op = "session/end"
             => (resp'.status = 200 <=> resp'.target[1] \in DOMAIN _sessions)]_vars

\* C18 happens: with the pointer moved on by two passwords and a session
\* cached, an /auth call has just been refused.
C18_Witness ==
    /\ resp.op = "auth"
    /\ resp.status = 401
    /\ current_index = 2
    /\ DOMAIN _sessions # {}

\* C19: a session/start call that fails, at the decoding of the upload or
\* at the embedding, leaves the session cache exactly as it was; one that
\* succeeds answers an id that was not cached before and is cached now,
\* with the image_size and image_url of the answer, under a saved file name.
C19_StartAllOrNothing ==
    [][/\ \A file \in Uploads, raises \in BOOLEAN :
             (start_session(file, raises) /\ (~file.decodes \/ raises))
                => (resp'.status \in {400, 500} /\ _sessions' = _sessions)
       /\ (resp'.op = "session/start" /\ resp'.status # 200) => _sessions' = _sessions
       /\ (resp'.op = "session/start" /\ resp'.status = 200)
             => /\ resp'.session_id # None
                /\ resp'.session_id[1] \notin DOMAIN _sessions
                /\ resp'.session_id[1] \in DOMAIN _sessions'
                /\ _sessions'[resp'.session_id[1]].image_size = resp'.image_size
                /\ _sessions'[resp'.session_id[1]].image_url = resp'.image_url
                /\ resp'.image_url[2] \in uploads']_vars

\* C19 happens: with a session cached, a session/start call has just failed
\* at the embedding, its upload already saved.
C19_Witness ==
    /\ resp.op = "session/start"
    /\ resp.status = 500
    /\ DOMAIN _sessions # {}
    /\ Cardinality(uploads) > Cardinality(DOMAIN _sessions) + Cardinality(ended)

-----------------------------------------------------------------------------
(* Properties of concurrent requests (ConcSpec).                           *)

\* sess is the entry a session/start call makes from the upload, saved under
\* one of the file names.
EntryOf(file, sess, img_filenames) ==
    \E img_filename \in img_filenames :
        /\ img_filename[2] = Extension(file)
        /\ sess = NewSession(_to_np_image(file), img_filename)

\* C14: however session/start, segment and session/end calls interleave,
\* every cached entry is whole, its embedding, image_size and image_url those
\* one session/start call made from one upload; session/start adds its entry
\* under an id that is not cached and leaves the others as they are;
\* session/end removes at most the entry of its id and leaves the others as
\* they are; and no other step changes the cache.
C14_StoreNeverCorrupted ==
    [][/\ \A s \in DOMAIN _sessions' :
             /\ DOMAIN _sessions'[s] = {"predictor", "image_size", "image_url"}
             /\ \E file \in Uploads : file.decodes /\ EntryOf(file, _sessions'[s], uploads')
       /\ \A s \in DOMAIN _sessions \cap DOMAIN _sessions' : _sessions'[s] = _sessions[s]
       /\ \A s \in DOMAIN _sessions' \ DOMAIN _sessions :
             /\ resp'.op = "session/start"
             /\ resp'.session_id = Some(s)
             /\ s \notin issued
             /\ DOMAIN _sessions' = DOMAIN _sessions \cup {s}
       /\ \A s \in DOMAIN _sessions \ DOMAIN _sessions' :
             /\ resp'.op = "session/end"
             /\ resp'.target = Some(s)
             /\ DOMAIN _sessions' = DOMAIN _sessions \ {s}]_vars

\* C14 happens: a session/end call has just removed one session while
\* another stays cached and a session/start call is awaiting its upload.
C14_Witness ==
    /\ resp.op = "session/end"
    /\ resp.status = 200
    /\ DOMAIN _sessions # {}
    /\ reading # NoReads

\* C15 (as claimed): nothing keeps a second call out of a session whose
\* predictor is in use: while a segment call is inside predictor.predict,
\* another segment call on that session can enter predictor.predict, or a
\* session/end call on that session can run.
C15_PredictionsCanOverlap ==
    \A call \in predicting :
        \/ \E p \in ConcPrompts : ENABLED segment_enter(Request(call.req.session_id, p))
        \/ ENABLED end_session_run(call.req.session_id)

\* C15 (amended): at most one segment call is inside predictor.predict at any
\* time, and until it has returned no other handler step runs: the step
\* after a call has entered the model is that call's own answer, with the
\* session cache as it was.
C15_PredictionsSerialized ==
    [][/\ Cardinality(predicting') <= 1
       /\ predicting # {}
             => /\ predicting' = {}
                /\ resp'.op = "segment"
                /\ resp'.status \in {200, 500}
                /\ resp'.target = Some((CHOOSE call \in predicting : TRUE).req.session_id)
                /\ _sessions' = _sessions
                /\ reading' = reading]_vars

\* C15 happens: a segment call is inside predictor.predict while two
\* session/start calls are awaiting their uploads and a second session is
\* cached.
C15_Witness ==
    /\ predicting # {}
    /\ SumOver(reading, Uploads) = 2
    /\ Cardinality(DOMAIN _sessions) = 2

-----------------------------------------------------------------------------
(* Properties of the Mask Vectorizer (VecSpec).                            *)

\* C5 (as claimed): no returned polygon has an enclosed area, measured on
\* the polygon as returned, below min_area, nor fewer than 3 vertices.
C5_ReturnedAreaAtLeastMin ==
    vec.done =>
        \A i \in 1 .. Len(vec.polys) :
            /\ contourArea_x2(vec.polys[i]) >= 2 * vec.min_area_px
            /\ Len(vec.polys[i]) >= 3

\* C5 (amended): no returned polygon has fewer than 3 vertices, and each is
\* the simplification of a contour of the mask whose enclosed area, measured
\* before simplification, is at least min_area.
C5_ContourAreaAtLeastMin ==
    vec.done =>
        \A i \in 1 .. Len(vec.polys) :
            /\ Len(vec.polys[i]) >= 3
            /\ \E j \in 1 .. Len(vec.mask) :
                  /\ contourArea_x2(vec.mask[j]) >= 2 * vec.min_area_px
                  /\ vec.polys[i] = Simplify(vec.mask[j], vec.simplify_eps_x2)

\* C5 happens: one contour was dropped for its area, and a polygon was
\* returned whose contour passed the filter although the polygon itself,
\* once simplified, encloses less than min_area.
C5_Witness ==
    /\ vec.done
    /\ \E j \in 1 .. Len(vec.mask) : contourArea_x2(vec.mask[j]) < 2 * vec.min_area_px
    /\ \E i \in 1 .. Len(vec.polys) : contourArea_x2(vec.polys[i]) < 2 * vec.min_area_px

\* C6: the polygons returned for a mask are in descending order of enclosed
\* area: area(polygons[i]) >= area(polygons[i+1]) for every valid i.
C6_SortedByAreaDescending ==
    vec.done =>
        \A i \in 1 .. Len(vec.polys) - 1 :
            contourArea_x2(vec.polys[i]) >= contourArea_x2(vec.polys[i + 1])

\* C6 happens: two polygons were returned, the larger first, in the opposite
\* order of their contours in the mask.
C6_Witness ==
    /\ vec.done
    /\ Len(vec.polys) = 2
    /\ contourArea_x2(vec.polys[1]) > contourArea_x2(vec.polys[2])
    /\ vec.polys # CollectPolys(vec.mask, vec.simplify_eps_x2, vec.min_area_px)

====
